---- MODULE Spec2Model ----
(***************************************************************************)
(* QAChecker (src/src/App.tsx): a React component that, for each keyword   *)
(* of a list, issues one search request and classifies the result list     *)
(* against a list of Q&A domain patterns.                                  *)
(*                                                                         *)
(* Representation.                                                         *)
(*  - A hostname or a domain pattern is the sequence of its dot-separated  *)
(*    labels ("www.qa.co" is <<"www","qa","co">>, "" is << >>), so that    *)
(*    `host === p` is equality of sequences and                            *)
(*    `host.endsWith("." + p)` is "p is a proper suffix of host".          *)
(*  - A link is what `new URL(link)` makes of it: it throws, or it yields  *)
(*    a hostname.  A SerpItem is modelled by its link (title and snippet   *)
(*    are carried along untouched by the code).                            *)
(*  - The keyword textarea is the sequence of its lines                    *)
(*    (keywords.split("\n")); the domain textarea is the sequence of the   *)
(*    pieces between its separators (qaDomains.split(/[\n,]+/)), a piece   *)
(*    that trims to "" being << >>.                                        *)
(*  - Each call of handleCheck is an activation: the closure of the render *)
(*    it was created in (apiKey, cx, keywordList, qaDomainList,            *)
(*    searchRank) plus its position in the for loop.  An activation        *)
(*    suspends at `await fetch(url)` (pc = "fetch") and at                 *)
(*    `await response.json()` (pc = "json").                               *)
(*  - clicks, nreq, log and trig are history variables: they record what   *)
(*    happened and are read by no action's guard or effect, except that    *)
(*    clicks is capped by MaxClicks.                                       *)
(***************************************************************************)
EXTENDS Integers, Sequences, FiniteSets, TLC

VARIABLES apiKey, cx, keywords, qaDomains, searchRank,
          results, isLoading,
          active, inflight,
          clicks, nreq, log, trig

vars == <<apiKey, cx, keywords, qaDomains, searchRank, results, isLoading,
          active, inflight, clicks, nreq, log, trig>>

form == <<apiKey, cx, keywords, qaDomains, searchRank>>
hist == <<clicks, nreq, log, trig>>

(***************************************************************************)
(* Bounds of the model.                                                    *)
(***************************************************************************)
MaxClicks == 2
MaxItems == 2

(***************************************************************************)
(* Constants of the program.                                               *)
(***************************************************************************)
defaultQADomains ==
  << <<"chiebukuro", "yahoo", "co", "jp">>,
     <<"detail", "chiebukuro", "yahoo", "co", "jp">>,
     <<"oshiete", "goo", "ne", "jp">>,
     <<"okwave", "jp">>,
     <<"teratail", "com">>,
     <<"ja", "stackoverflow", "com">>,
     <<"stackoverflow", "com">> >>

API_ENDPOINT == "https://www.googleapis.com/customsearch/v1"

DefaultSearchRank == 10

(***************************************************************************)
(* Utilities.                                                              *)
(***************************************************************************)
\* new URL(url).hostname.replace(/^www\./, ""), "" when new URL throws.
\* /^www\./ matches when the first label is "www" and a dot follows it.
hostnameOf(link) ==
  IF ~link.parses THEN << >>
  ELSE IF Len(link.hostname) >= 2 /\ link.hostname[1] = "www"
       THEN Tail(link.hostname)
       ELSE link.hostname

\* host.endsWith("." + p): p (never blank, see qaDomainList) is a proper
\* suffix of host
EndsWithDot(host, p) ==
  /\ Len(p) > 0
  /\ Len(host) > Len(p)
  /\ SubSeq(host, Len(host) - Len(p) + 1, Len(host)) = p

includesAny(host, patterns) ==
  \E k \in 1..Len(patterns) : host = patterns[k] \/ EndsWithDot(host, patterns[k])

\* k.trim() !== "" on a line of the keyword textarea
NotBlankLine(k) == k \notin {"", " "}

\* d.trim() !== "" on a piece of the domain textarea
NotBlankPiece(d) == d /= << >>

\* useMemo: keywords.split("\n").filter(k => k.trim() !== "")
KeywordListOf(text) == SelectSeq(text, NotBlankLine)

\* useMemo: qaDomains.split(/[\n,]+/).filter(d => d.trim() !== "")
QaDomainListOf(text) == SelectSeq(text, NotBlankPiece)

keywordList == KeywordListOf(keywords)
qaDomainList == QaDomainListOf(qaDomains)

(***************************************************************************)
(* Responses of the search API.                                            *)
(***************************************************************************)
\* response.ok
Ok(status) == status \in 200..299

\* a body response.json() rejects
Garbage == [json |-> FALSE]
\* {}
EmptyObject == [json |-> TRUE, error |-> "absent", items |-> "absent"]
\* {"error": {}}
ErrorNoMessage == [json |-> TRUE, error |-> "object", items |-> "absent"]
\* {"error": {"message": m}}
ErrorBody(m) == [json |-> TRUE, error |-> "message", message |-> m, items |-> "absent"]
\* {"items": L}
ItemsBody(L) == [json |-> TRUE, error |-> "absent", items |-> "list", list |-> L]

\* e.message of what the handler's catch receives
ErrorText(t) == [text |-> t]
\* `HTTP error! status: ${response.status}`
GenericHttp(status) == [text |-> "HTTP error! status: ", status |-> status]
NetworkMessage == ErrorText("Failed to fetch")
SyntaxMessage == ErrorText("Unexpected token < in JSON at position 0")
TypeMessage == ErrorText("Cannot read properties of undefined (reading 'message')")

\* errorData.error.message || `HTTP error! status: ${response.status}`, the
\* message of the Error thrown on a response that is not ok; reading .message
\* of an absent error object throws a TypeError instead
NotOkMessage(status, body) ==
  IF body.error = "absent" THEN TypeMessage
  ELSE IF body.error = "message" /\ body.message /= "" THEN ErrorText(body.message)
  ELSE GenericHttp(status)

\* data.items || []
ItemsOf(body) == IF body.items = "list" THEN body.list ELSE << >>

(***************************************************************************)
(* handleCheck.                                                            *)
(***************************************************************************)
\* the credentials check with the cx half forgotten
CredentialsMissingKeyOnly(k, c) == k = ""

\* !apiKey || !cx
CredentialsMissing(k, c) == k = "" \/ c = ""

\* only the first keyword is given an Outcome up front
InitialResultsLazy(kl) ==
  [j \in 1..(IF Len(kl) > 0 THEN 1 ELSE 0) |-> [keyword |-> kl[j], status |-> "loading"]]

\* keywordList.map(k => ({ keyword: k, status: "loading" }))
InitialResults(kl) ==
  [j \in 1..Len(kl) |-> [keyword |-> kl[j], status |-> "loading"]]

\* the request built from the form's current values instead of the closure's
RequestForLive(a, run) ==
  [run |-> run, i |-> a.i, endpoint |-> API_ENDPOINT,
   key |-> apiKey, cx |-> cx, q |-> a.keywordList[a.i], num |-> searchRank,
   gl |-> "jp", hl |-> "ja"]

\* the request of fetch(url): url's endpoint and query parameters
\* (encodeURIComponent is injective; q stands for the encoded keyword),
\* tagged with the activation that awaits it
RequestFor(a, run) ==
  [run |-> run, i |-> a.i, endpoint |-> API_ENDPOINT,
   key |-> a.apiKey, cx |-> a.cx, q |-> a.keywordList[a.i], num |-> a.searchRank,
   gl |-> "jp", hl |-> "ja"]

\* the scan without its `break`: the last matching item wins
RECURSIVE ScanNoBreak(_, _, _, _, _)
ScanNoBreak(keyword, items, patterns, i, found) ==
  IF i > Len(items) THEN found
  ELSE IF includesAny(hostnameOf(items[i]), patterns)
       THEN ScanNoBreak(keyword, items, patterns, i + 1,
              [keyword |-> keyword, status |-> "ok", rank |-> i,
               domain |-> hostnameOf(items[i]), serp |-> items])
       ELSE ScanNoBreak(keyword, items, patterns, i + 1, found)

\* for (let i = 0; i < items.length; i++) { ... found = ...; break; } with
\* i counted from 1: i is the code's i + 1; found is the code's `found`,
\* [status |-> "null"] while it is null
RECURSIVE Scan(_, _, _, _, _)
Scan(keyword, items, patterns, i, found) ==
  IF i > Len(items) THEN found
  ELSE IF includesAny(hostnameOf(items[i]), patterns)
       THEN [keyword |-> keyword, status |-> "ok", rank |-> i,
             domain |-> hostnameOf(items[i]), serp |-> items]
       ELSE Scan(keyword, items, patterns, i + 1, found)

\* classification against the form's current pattern list
ClassifyLive(keyword, items, patterns) ==
  LET found == Scan(keyword, items, qaDomainList, 1, [status |-> "null"])
  IN  IF found.status /= "null" THEN found
      ELSE [keyword |-> keyword, status |-> "ng", serp |-> items]

\* found || { keyword, status: "ng", serp: items }
Classify(keyword, items, patterns) ==
  LET found == Scan(keyword, items, patterns, 1, [status |-> "null"])
  IN  IF found.status /= "null" THEN found
      ELSE [keyword |-> keyword, status |-> "ng", serp |-> items]

\* { keyword, status: "error", error: e.message }
Failed(keyword, message) == [keyword |-> keyword, status |-> "error", error |-> message]

\* prev.map(r => r.keyword === keyword ? result : r)
MapResult(prev, keyword, result) ==
  [j \in 1..Len(prev) |-> IF prev[j].keyword = keyword THEN result ELSE prev[j]]

\* the activation of a call of handleCheck: the values its closure captured
Activation ==
  [apiKey |-> apiKey, cx |-> cx, keywordList |-> keywordList,
   qaDomainList |-> qaDomainList, searchRank |-> searchRank,
   i |-> 1, pc |-> "fetch", status |-> 0]

RemoveAt(s, n) == SubSeq(s, 1, n - 1) \o SubSeq(s, n + 1, Len(s))

\* the loop that repeats an iteration whose Outcome is "error"
ContinueRetry(n, outcome) ==
  LET a == active[n]
      j == IF outcome.status = "error" THEN a.i ELSE a.i + 1
      b == [a EXCEPT !.i = j, !.pc = "fetch", !.status = 0]
  IN  IF j <= Len(a.keywordList)
      THEN /\ active' = [active EXCEPT ![n] = b]
           /\ inflight' = {r \in inflight : r.run /= n} \cup {RequestFor(b, n)}
           /\ nreq' = nreq + 1
           /\ UNCHANGED isLoading
      ELSE /\ active' = RemoveAt(active, n)
           /\ inflight' = {r \in inflight : r.run /= n}
           /\ isLoading' = FALSE
           /\ UNCHANGED nreq

\* the end of an iteration of `for (const keyword of keywordList)`: the next
\* iteration runs up to its `await fetch(url)`, or the loop is over and
\* setIsLoading(false) runs.  `outcome` is the Outcome the iteration set.
Continue(n, outcome) ==
  LET a == active[n]
      b == [a EXCEPT !.i = a.i + 1, !.pc = "fetch", !.status = 0]
  IN  IF a.i < Len(a.keywordList)
      THEN /\ active' = [active EXCEPT ![n] = b]
           /\ inflight' = {r \in inflight : r.run /= n} \cup {RequestFor(b, n)}
           /\ nreq' = nreq + 1
           /\ UNCHANGED isLoading
      ELSE /\ active' = RemoveAt(active, n)
           /\ inflight' = {r \in inflight : r.run /= n}
           /\ isLoading' = FALSE
           /\ UNCHANGED nreq

\* <Button onClick={handleCheck} disabled={isLoading || keywordList.length === 0}>
ButtonEnabled == ~isLoading /\ Len(keywordList) > 0

\* a click on the run button: handleCheck up to its first await.
\* alert() changes nothing of the component's state.
HandleCheck ==
  /\ ButtonEnabled
  /\ clicks < MaxClicks
  /\ clicks' = clicks + 1
  /\ IF CredentialsMissing(apiKey, cx)
     THEN UNCHANGED <<form, results, isLoading, active, inflight, nreq, log, trig>>
     ELSE /\ isLoading' = TRUE
          /\ results' = InitialResults(keywordList)
          /\ active' = Append(active, Activation)
          /\ inflight' = inflight \cup {RequestFor(Activation, Len(active) + 1)}
          /\ nreq' = 1
          /\ log' = << >>
          /\ trig' = [apiKey |-> apiKey, cx |-> cx, keywordList |-> keywordList,
                      qaDomainList |-> qaDomainList, searchRank |-> searchRank]
          /\ UNCHANGED form

\* fetch(url) rejects (transport failure): the catch sets the Outcome
FetchReject(n) ==
  /\ n \in 1..Len(active)
  /\ active[n].pc = "fetch"
  /\ LET a == active[n]
         keyword == a.keywordList[a.i]
         outcome == Failed(keyword, NetworkMessage)
     IN  /\ results' = MapResult(results, keyword, outcome)
         /\ log' = Append(log, [i |-> a.i, kind |-> "network"])
         /\ Continue(n, outcome)
  /\ UNCHANGED <<form, clicks, trig>>

\* fetch(url) resolves with a response of the given status
FetchResolve(n, status) ==
  /\ n \in 1..Len(active)
  /\ active[n].pc = "fetch"
  /\ active' = [active EXCEPT ![n].pc = "json", ![n].status = status]
  /\ UNCHANGED <<form, results, isLoading, inflight, hist>>

\* response.json() settles with the given body: the rest of the iteration
JsonSettle(n, body) ==
  /\ n \in 1..Len(active)
  /\ active[n].pc = "json"
  /\ LET a == active[n]
         keyword == a.keywordList[a.i]
         outcome ==
           IF ~body.json THEN Failed(keyword, SyntaxMessage)
           ELSE IF ~Ok(a.status) THEN Failed(keyword, NotOkMessage(a.status, body))
           ELSE Classify(keyword, ItemsOf(body), a.qaDomainList)
     IN  /\ results' = MapResult(results, keyword, outcome)
         /\ log' = Append(log, [i |-> a.i, kind |-> "response",
                                status |-> a.status, body |-> body])
         /\ Continue(n, outcome)
  /\ UNCHANGED <<form, clicks, trig>>

(***************************************************************************)
(* The form.                                                               *)
(***************************************************************************)
SetApiKey(v) ==
  /\ apiKey' = v
  /\ UNCHANGED <<cx, keywords, qaDomains, searchRank, results, isLoading,
                 active, inflight, hist>>

SetCx(v) ==
  /\ cx' = v
  /\ UNCHANGED <<apiKey, keywords, qaDomains, searchRank, results, isLoading,
                 active, inflight, hist>>

SetKeywords(text) ==
  /\ keywords' = text
  /\ UNCHANGED <<apiKey, cx, qaDomains, searchRank, results, isLoading,
                 active, inflight, hist>>

SetQaDomains(text) ==
  /\ qaDomains' = text
  /\ UNCHANGED <<apiKey, cx, keywords, searchRank, results, isLoading,
                 active, inflight, hist>>

SetSearchRank(n) ==
  /\ searchRank' = n
  /\ UNCHANGED <<apiKey, cx, keywords, qaDomains, results, isLoading,
                 active, inflight, hist>>

(***************************************************************************)
(* The state after construction.                                           *)
(***************************************************************************)
\* what the user may type into the credential fields, or localStorage hold
ApiKeys == {"", "KEY"}
CxIds == {"", "CX"}

\* "qa.co\n": one pattern and a blank piece
CustomDomainText == << <<"qa", "co">>, << >> >>
DomainTexts == {defaultQADomains, CustomDomainText}

NoTrigger ==
  [apiKey |-> "", cx |-> "", keywordList |-> << >>, qaDomainList |-> << >>,
   searchRank |-> 0]

Init ==
  /\ apiKey \in ApiKeys
  /\ cx \in CxIds
  /\ keywords = <<"">>
  /\ qaDomains \in DomainTexts
  /\ results = << >>
  /\ isLoading = FALSE
  /\ searchRank = DefaultSearchRank
  /\ active = << >>
  /\ inflight = {}
  /\ clicks = 0
  /\ nreq = 0
  /\ log = << >>
  /\ trig = NoTrigger

(***************************************************************************)
(* Inputs.                                                                 *)
(***************************************************************************)
\* "", "k1\n \nk2", "k1\nk2\nk1"
KeywordTexts == {<<"">>, <<"k1", " ", "k2">>, <<"k1", "k2", "k1">>}
Ranks == {1, DefaultSearchRank}
Statuses == {200, 403}

LinkQa == [parses |-> TRUE, hostname |-> <<"www", "qa", "co">>]
LinkSo == [parses |-> TRUE, hostname |-> <<"ja", "stackoverflow", "com">>]
LinkNear == [parses |-> TRUE, hostname |-> <<"notqa", "co">>]
LinkBad == [parses |-> FALSE]

SeqsUpTo(S, n) == UNION {[1..m -> S] : m \in 0..n}

\* the bodies of the batch specification
RunBodies ==
  {ErrorBody("Quota exceeded"), ItemsBody(<< >>), ItemsBody(<<LinkQa>>),
   ItemsBody(<<LinkSo>>)}

\* the bodies of the response specification
AllLinks == {LinkQa, LinkSo, LinkNear, LinkBad}
AllBodies ==
  {Garbage, EmptyObject, ErrorNoMessage, ErrorBody("Quota exceeded"), ErrorBody("")}
  \cup {ItemsBody(L) : L \in SeqsUpTo(AllLinks, MaxItems)}

(***************************************************************************)
(* The batch specification: every control of the form, any interleaving of *)
(* edits and clicks with a running batch, keyword lists with blank lines   *)
(* and with duplicates.                                                    *)
(***************************************************************************)
Settle ==
  \/ \E n \in 1..Len(active) : FetchReject(n)
  \/ \E n \in 1..Len(active) : \E s \in Statuses : FetchResolve(n, s)
  \/ \E n \in 1..Len(active) : \E b \in RunBodies : JsonSettle(n, b)

Next ==
  \/ \E v \in ApiKeys : SetApiKey(v)
  \/ \E v \in CxIds : SetCx(v)
  \/ \E t \in KeywordTexts : SetKeywords(t)
  \/ \E t \in DomainTexts : SetQaDomains(t)
  \/ \E r \in Ranks : SetSearchRank(r)
  \/ HandleCheck
  \/ Settle

Spec == Init /\ [][Next]_vars

(***************************************************************************)
(* The fair specification: the batch specification's actions with the      *)
(* domain and rank fields only ever reset to their defaults, under the     *)
(* assumption that every issued request eventually completes (fetch        *)
(* settles, and so does the reading of the body).                          *)
(***************************************************************************)
FairNext ==
  \/ \E v \in ApiKeys : SetApiKey(v)
  \/ \E v \in CxIds : SetCx(v)
  \/ \E t \in KeywordTexts : SetKeywords(t)
  \/ SetQaDomains(defaultQADomains)
  \/ SetSearchRank(DefaultSearchRank)
  \/ HandleCheck
  \/ Settle

FairSpec == Init /\ [][FairNext]_vars /\ WF_vars(Settle)

(***************************************************************************)
(* The response specification: one keyword, valid credentials, every kind  *)
(* of response body and every item list of up to MaxItems links.           *)
(***************************************************************************)
RespInit == Init /\ apiKey = "KEY" /\ cx = "CX"

RespRanks == {1, 2, DefaultSearchRank}

RespNext ==
  \/ SetKeywords(<<"k1">>)
  \/ \E t \in DomainTexts : SetQaDomains(t)
  \/ \E r \in RespRanks : SetSearchRank(r)
  \/ HandleCheck
  \/ \E n \in 1..Len(active) : FetchReject(n)
  \/ \E n \in 1..Len(active) : \E s \in Statuses : FetchResolve(n, s)
  \/ \E n \in 1..Len(active) : \E b \in AllBodies : JsonSettle(n, b)

RespSpec == RespInit /\ [][RespNext]_vars

(***************************************************************************)
(* Properties.                                                             *)
(***************************************************************************)
IsTerminal(r) == r.status \in {"ok", "ng", "error"}

\* a step in which handleCheck is called
Clicked == clicks' = clicks + 1

\* the request of a logged completion failed: transport failure or a status
\* that is not a success status
RequestFailed(e) == e.kind = "network" \/ e.status \notin 200..299

\* hostname h equals pattern p or ends with "." + p
MatchesPattern(h, p) ==
  \/ h = p
  \/ /\ Len(h) > Len(p)
     /\ \A t \in 1..Len(p) : h[Len(h) - Len(p) + t] = p[t]

\* position i of item list L holds a link whose normalized hostname matches
\* some pattern of P
MatchAt(L, P, i) == \E k \in 1..Len(P) : MatchesPattern(hostnameOf(L[i]), P[k])

\* the Outcome of keyword kw for item list L and pattern list P: matched at
\* the smallest matching position, else not-matched, L retained in both
ExpectedOutcome(kw, L, P) ==
  IF \E i \in 1..Len(L) : MatchAt(L, P, i)
  THEN LET first == CHOOSE i \in 1..Len(L) :
                      MatchAt(L, P, i) /\ \A j \in 1..(i - 1) : ~MatchAt(L, P, j)
       IN  [keyword |-> kw, status |-> "ok", rank |-> first,
            domain |-> hostnameOf(L[first]), serp |-> L]
  ELSE [keyword |-> kw, status |-> "ng", serp |-> L]

\* C1: a call of handleCheck with an empty API key or an empty search-engine
\* identifier issues no request, creates no Outcome and leaves the Outcome
\* list, the loading flag and the set of running batches as they were.
C1_MissingCredentialsDoNothing ==
  [][(Clicked /\ (apiKey = "" \/ cx = ""))
       => /\ results' = results
          /\ isLoading' = isLoading
          /\ inflight' = inflight
          /\ active' = active
          /\ nreq' = nreq]_vars

\* C1 witness: handleCheck has been called, the API key is set, the
\* search-engine identifier is empty, and no request was ever issued.
C1_Witness ==
  clicks >= 1 /\ nreq = 0 /\ results = << >> /\ apiKey /= "" /\ cx = ""

\* C2: a call of handleCheck with valid credentials sets one in-progress
\* Outcome per entry of the keyword list, in list order, in the step that
\* issues the first request and before any response is handled; from then on
\* every keyword of the run has its Outcome, and an Outcome is terminal only
\* after a response of this run was handled.
C2_AllInProgressUpFront ==
  /\ [][(Clicked /\ apiKey /= "" /\ cx /= "")
          => /\ results' = [j \in 1..Len(keywordList) |->
                              [keyword |-> keywordList[j], status |-> "loading"]]
             /\ log' = << >>
             /\ nreq' = 1]_vars
  /\ [](nreq >= 1 =>
          /\ Len(results) = Len(trig.keywordList)
          /\ \A j \in 1..Len(results) :
                /\ results[j].keyword = trig.keywordList[j]
                /\ results[j].status \in {"loading", "ok", "ng", "error"}
                /\ (IsTerminal(results[j]) => Len(log) >= 1))

\* C2 witness: a run of three keywords has just started: its first request is
\* in flight, no response was handled and all three Outcomes are in progress.
C2_Witness ==
  /\ Len(results) = 3
  /\ \A j \in 1..3 : results[j].status = "loading"
  /\ inflight /= {}
  /\ log = << >>

\* C3: at most one request is in flight; while the request of position i is
\* in flight every earlier position is terminal; and terminal states are
\* reached in list order (no position is terminal while an earlier one is
\* still in progress).
C3_StrictlySequential ==
  /\ Cardinality(inflight) <= 1
  /\ \A r \in inflight : \A p \in 1..(r.i - 1) : IsTerminal(results[p])
  /\ \A p, q \in 1..Len(results) :
        (p < q /\ IsTerminal(results[q])) => IsTerminal(results[p])

\* the part of C3 that is about requests: at most one in flight, issued for
\* position i only when every earlier position is terminal
C3_RequestsSequential ==
  /\ Cardinality(inflight) <= 1
  /\ Cardinality(inflight) = Len(active)
  /\ \A r \in inflight : \A p \in 1..(r.i - 1) : IsTerminal(results[p])

\* C4: within a run an Outcome leaves in-progress once, to a terminal state,
\* and a terminal Outcome is never changed again.
C4_TerminalIsFinal ==
  [][\A p \in 1..Len(results) :
        (IsTerminal(results[p]) /\ ~Clicked)
          => (Len(results') = Len(results) /\ results'[p] = results[p])]_vars

\* C5: a failed request does not abort the batch: when the run has finished
\* every keyword was requested, exactly the keywords whose own request failed
\* are failed, and handling the response of one position changes the Outcome
\* of no other position.
C5_FailuresIsolated ==
  /\ []((active = << >> /\ nreq >= 1) =>
          /\ nreq = Len(trig.keywordList)
          /\ Len(log) = Len(results)
          /\ \A p \in 1..Len(results) :
                (results[p].status = "error") <=> RequestFailed(log[p]))
  /\ [][Len(log') = Len(log) + 1 =>
          \A p \in 1..Len(results) :
             p /= log'[Len(log')].i => results'[p] = results[p]]_vars

\* C6: after a response with a non-success status the keyword's Outcome is
\* failed and its error detail is the server-reported message if the body
\* carries one, else the generic HTTP-error message with the status code.
C6_NonSuccessMessage ==
  log /= << >> =>
    LET e == log[Len(log)]
    IN  (e.kind = "response" /\ e.status \notin 200..299) =>
          /\ results[e.i].status = "error"
          /\ results[e.i].error =
               IF e.body.json /\ e.body.error = "message" /\ e.body.message /= ""
               THEN [text |-> e.body.message]
               ELSE [text |-> "HTTP error! status: ", status |-> e.status]

\* C7: after a successful response with item list L (no items when the body
\* has no items field) the Outcome is matched with the smallest matching
\* 1-based position as rank and that item's normalized hostname as domain,
\* or not-matched when no position matches; L is retained in both cases.
C7_FirstMatchWins ==
  log /= << >> =>
    LET e == log[Len(log)]
    IN  (e.kind = "response" /\ e.status \in 200..299 /\ e.body.json) =>
          results[e.i] =
            ExpectedOutcome(trig.keywordList[e.i],
                            IF e.body.items = "list" THEN e.body.list ELSE << >>,
                            trig.qaDomainList)

\* C7 witness: a response whose first link is not a parseable URL and whose
\* second link is www.qa.co was classified against the pattern qa.co:
\* matched at rank 2 with domain qa.co, both items retained.
C7_Witness ==
  /\ Len(results) = 1
  /\ results[1].status = "ok"
  /\ results[1].rank = 2
  /\ results[1].domain = <<"qa", "co">>
  /\ results[1].serp = <<LinkBad, LinkQa>>

\* C8: every request of a run carries the API key, search-engine identifier
\* and rank cutoff the form held when the run was triggered and the keyword
\* of its position in the keyword list of that moment; the run's Outcomes are
\* those of that keyword list; and every classification is the one the
\* pattern list of that moment gives.
C8_ConfigurationSnapshot ==
  /\ \A r \in inflight :
        /\ r.key = trig.apiKey
        /\ r.cx = trig.cx
        /\ r.num = trig.searchRank
        /\ r.i \in 1..Len(trig.keywordList)
        /\ r.q = trig.keywordList[r.i]
  /\ nreq >= 1 =>
        /\ Len(results) = Len(trig.keywordList)
        /\ \A j \in 1..Len(results) : results[j].keyword = trig.keywordList[j]
  /\ \A j \in 1..Len(results) :
        results[j].status \in {"ok", "ng"} =>
          results[j] = ExpectedOutcome(results[j].keyword, results[j].serp,
                                       trig.qaDomainList)

\* C8 witness: a run is at its second keyword or later while every field of
\* the form differs from what the run was triggered with, and the first
\* Outcome is matched on a hostname the form's current pattern list does not
\* match.
C8_Witness ==
  /\ active /= << >>
  /\ \E r \in inflight :
        r.i >= 2 /\ r.key /= apiKey /\ r.cx /= cx /\ r.num /= searchRank
  /\ keywordList /= trig.keywordList
  /\ qaDomainList /= trig.qaDomainList
  /\ results[1].status = "ok"
  /\ ~includesAny(results[1].domain, qaDomainList)

\* the run is over: no activation, no request in flight, the loading flag
\* cleared, every Outcome terminal, one request issued per keyword
RunDone ==
  /\ active = << >>
  /\ inflight = {}
  /\ ~isLoading
  /\ \A j \in 1..Len(results) : IsTerminal(results[j])
  /\ nreq = Len(trig.keywordList)

\* C9: if every issued request eventually completes, a started run reaches
\* the state where every Outcome is terminal, the loading flag is cleared
\* and nothing is in flight; a run never issues more requests than it has
\* keywords (no retries) and none after it is over.
C9_RunTerminates ==
  /\ (active /= << >>) ~> RunDone
  /\ [](nreq <= Len(trig.keywordList))
  /\ [](active = << >> => inflight = {})
  /\ [][active = << >> /\ ~Clicked => nreq' = nreq]_vars

\* C9 witness: a run of three keywords is over, with a failed Outcome among
\* its Outcomes.
C9_Witness ==
  /\ RunDone
  /\ Len(results) = 3
  /\ nreq = 3
  /\ \E j \in 1..3 : results[j].status = "error"

\* C10: the rank of a matched Outcome is between 1 and the rank cutoff its
\* request was sent with.
C10_RankWithinCutoff ==
  \A j \in 1..Len(results) :
     results[j].status = "ok" => results[j].rank \in 1..trig.searchRank

====
